---- MODULE Spec2Model ----
(***************************************************************************)
(* A model of sumologic_export.py: one run of main() -> Exporter() ->      *)
(* Exporter.export(start, stop).  The program is single-threaded; pc is    *)
(* the position of the one thread.  The remote service, the clock and the  *)
(* local file system are the environment: every response of the service    *)
(* is chosen with \E from what the transport can deliver.                  *)
(*                                                                         *)
(* Time is counted in hours, dates in whole days since an epoch.  A run    *)
(* [lo, hi) in `yielded' and in a file's contents stands for the records   *)
(* lo .. hi-1 of the job's result set, one line each: the loop of          *)
(* get_logs hands them over one by one with nothing else in between.       *)
(***************************************************************************)
EXTENDS Integers, Sequences, FiniteSets, TLC

(* ---------------------------- bounds ---------------------------------- *)
\* explicit date arguments reach back this many days before today
MaxBack == 2
\* failed attempts the environment injects into one retry loop
MaxFail == 2
\* a job's result set holds up to MaxK full pages (plus one record)
MaxK == 1
\* write_to_file on its own is given up to MaxLogs records
MaxLogs == 2
(* ----------------------- program constants ---------------------------- *)
HoursPerDay == 24
MESSAGES_PER_PAGE == 10000
SLEEP_SECONDS == 60
RETRY_SECONDS == 1
DefaultDays == 30

INCREMENT == HoursPerDay
DEFAULT_TIMERANGE == DefaultDays * HoursPerDay

(* --------------------------- values ----------------------------------- *)
None == 0 - 1
Omitted == 0 - 1
MalformedDate == 0 - 2
NoId == None
CWD == "."
EXPORTS == "exports"

\* today's day number: early enough dates stay positive
Today == DefaultDays + MaxBack + 1

DateArgs == {Omitted, MalformedDate} \cup ((Today - MaxBack) .. (Today + 1))

\* the one day the service holds logs for: yesterday
DataDay == Today - 1

\* the result-set sizes the service may hold for a window starting on `day'
Counts(day) ==
    IF day = DataDay
    THEN {k * MESSAGES_PER_PAGE + r : k \in 0 .. MaxK, r \in {0, 1}}
    ELSE {0}

Min(a, b) == IF a < b THEN a ELSE b

VARIABLES
    argStart, argStop,      \* args['<start>'], args['<stop>']
    now,                    \* the wall clock, in hours
    configFile,             \* ~/.sumo: "ok", "missing", "unreadable"
    cookieFile,             \* .sumocookie exists
    exportsDir,             \* the directory exports exists
    files,                  \* the file system: <<dir, name>> -> contents
    files0,                 \* the file system as the run found it
    pc, exitReason,
    start, stop, date,      \* self.start, self.stop, date
    job_url, total_logs,    \* locals of export
    page, body,             \* get_logs: the page index, the decoded response
    loop,                   \* the retry loop running: which call, its attempts and sleeps
    svcAccepted, svcCount,  \* the service: jobs accepted for this window, result size
    phases,                 \* the steps of export() done for this window, in order
    pageReqs,               \* the page requests of this window, <<limit, offset>>,
                            \* a retried request listed once
    pageFailed,             \* a page attempt of this window has failed
    yielded,                \* the runs get_logs yielded in this window
    lastPost, lastPoll,     \* the last response create_job / get_count received
    lastSaved,              \* the last remote call wrote the cookie jar
    cutShort,               \* a bad entry ended a page after some of its records
    windows,                \* the windows export asked a job for: <<from, to>>
    outcomes,               \* window start -> "WRITTEN" | "EMPTY"
    called,                 \* a remote call has been issued in this run
    sinkName, sinkLogs,     \* write_to_file on its own: file_name, logs
    sinkLeft,               \* the records the for loop has not written yet
    sinkPc,                 \* "idle", "open", "write", "closed"
    sinkFiles               \* the file system by characters: <<dir, name>> -> text

vars == <<argStart, argStop, now, configFile, cookieFile, exportsDir, files, files0,
          pc, exitReason, start, stop, date, job_url, total_logs, page, body,
          loop, svcAccepted, svcCount, phases, pageReqs, pageFailed, yielded,
          lastPost, lastPoll, lastSaved, cutShort,
          windows, outcomes, called,
          sinkName, sinkLogs, sinkLeft, sinkPc, sinkFiles>>

\* the state of export(), which write_to_file on its own leaves alone
exportVars == <<argStart, argStop, now, configFile, cookieFile, exportsDir, files,
                files0, pc, exitReason, start, stop, date, job_url, total_logs,
                page, body, loop, svcAccepted, svcCount, phases, pageReqs,
                pageFailed, yielded, lastPost, lastPoll, lastSaved, cutShort,
                windows, outcomes, called>>
sinkVars == <<sinkName, sinkLogs, sinkLeft, sinkPc, sinkFiles>>

envVars == <<argStart, argStop, configFile, files0, sinkVars>>
winGhost == <<phases, pageReqs, pageFailed, yielded, lastPost, lastPoll, lastSaved,
              cutShort>>
\* what no step of a window's processing changes
fixed == <<argStart, argStop, configFile, now, exportsDir, exitReason, start, stop,
           files0, sinkVars>>

(* ------------------------- pure helpers ------------------------------- *)
\* datetime.replace(hour=0, minute=0, second=0, microsecond=0)
Midnight(t) == (t \div HoursPerDay) * HoursPerDay

\* datetime.strptime(s, '%Y-%m-%d') of a well-formed date string
strptime(d) == d * HoursPerDay

\* prettify = lambda x: x.strftime('%Y-%m-%d')
prettify(t) == t \div HoursPerDay

\* '%s/%s' % (SUMOLOGIC_URL, id)
JobUrl(id) == <<"jobs", id>>

\* a later reading of the clock: within the hour after `first'
Clock(t, first) == t .. (first + 1)

\* f.write of the records lo .. hi-1 after `content'
AppendRun(content, lo, hi) ==
    IF lo >= hi THEN content
    ELSE IF Len(content) > 0 /\ content[Len(content)][2] = lo
         THEN [content EXCEPT ![Len(content)] = <<content[Len(content)][1], hi>>]
         ELSE Append(content, <<lo, hi>>)

Put(f, k, v) == [x \in DOMAIN f \cup {k} |-> IF x = k THEN v ELSE f[x]]

NoResp == [net |-> "none", status |-> 0, id |-> NoId, state |-> "none",
           count |-> None, accepted |-> FALSE]

\* an entry of `phases'
Ph(step, secs) == [step |-> step, secs |-> secs]

\* no retry loop has run in this window yet
NoLoop == [call |-> "none", arg |-> 0, attempts |-> 0, sleeps |-> <<>>]

\* `l' after one more attempt of the loop of `call' (for page `arg')
Attempt(l, call, arg) ==
    IF l.call = call /\ l.arg = arg
    THEN [l EXCEPT !.attempts = @ + 1]
    ELSE [call |-> call, arg |-> arg, attempts |-> 1, sleeps |-> <<>>]

\* the attempts the loop of `call' (for page `arg') has made
Attempts(l, call, arg) ==
    IF l.call = call /\ l.arg = arg THEN l.attempts ELSE 0

IdleBody == [lo |-> 0, hi |-> 0, bad |-> None]

\* write_to_file on its own is not running
SinkIdle ==
    /\ sinkName = None /\ sinkLogs = <<>> /\ sinkLeft = <<>>
    /\ sinkPc = "idle" /\ sinkFiles = <<>>

(* --------------------------- Init ------------------------------------- *)
OldFiles ==
    [p \in {<<CWD, DataDay>>, <<CWD, DataDay - 1>>,
            <<EXPORTS, DataDay>>, <<EXPORTS, DataDay - 1>>} |-> <<<<0, 1>>>>]

Init ==
    /\ argStart \in DateArgs
    /\ argStop \in DateArgs
    /\ now = Today * HoursPerDay + HoursPerDay - 1
    /\ configFile \in {"ok", "missing", "unreadable"}
    /\ cookieFile \in BOOLEAN
    /\ exportsDir \in BOOLEAN
    /\ files \in {<<>>, OldFiles}
    /\ files0 = files
    /\ pc = "main"
    /\ exitReason = "none"
    /\ start = None /\ stop = None /\ date = None
    /\ job_url = JobUrl(NoId) /\ total_logs = None
    /\ page = 0 /\ body = IdleBody
    /\ loop = NoLoop /\ svcAccepted = 0 /\ svcCount = 0
    /\ phases = <<>> /\ pageReqs = <<>> /\ pageFailed = FALSE /\ yielded = <<>>
    /\ lastPost = NoResp /\ lastPoll = NoResp /\ lastSaved = FALSE
    /\ cutShort = FALSE
    /\ windows = <<>>
    /\ outcomes = <<>>
    /\ called = FALSE
    /\ SinkIdle

(* ------------------- main / Exporter.__init__ ------------------------- *)
Stop(where, why) ==
    /\ pc' = where
    /\ exitReason' = why

\* Exporter() that goes on when mkdir('exports') fails
ExporterInit_IgnoreMkdir ==
    /\ pc = "main"
    /\ \E mkdirOk \in BOOLEAN :
        IF configFile = "missing"
        THEN /\ Stop("exit", "NoCredentials")
             /\ UNCHANGED exportsDir
        ELSE /\ exportsDir' = (exportsDir \/ mkdirOk)
             /\ IF configFile = "unreadable"
                THEN Stop("crashed", "CredentialsError")
                ELSE IF ~cookieFile
                THEN Stop("crashed", "CookieLoadError")
                ELSE Stop("init_dates", "none")
    /\ UNCHANGED <<envVars, now, cookieFile, files, start, stop, date, job_url,
                   total_logs, page, body, loop, svcAccepted, svcCount,
                   winGhost, windows, outcomes, called>>

\* main(): Exporter() with SumologicClient() and read_creds() inside it
ExporterInit ==
    /\ pc = "main"
    /\ \E mkdirOk \in BOOLEAN :
        IF configFile = "missing"
        THEN /\ Stop("exit", "NoCredentials")
             /\ UNCHANGED exportsDir
        ELSE IF ~exportsDir /\ ~mkdirOk
        THEN /\ Stop("crashed", "OSError")
             /\ UNCHANGED exportsDir
        ELSE /\ exportsDir' = TRUE
             /\ IF configFile = "unreadable"
                THEN Stop("crashed", "CredentialsError")
                ELSE IF ~cookieFile
                THEN Stop("crashed", "CookieLoadError")
                ELSE Stop("init_dates", "none")
    /\ UNCHANGED <<envVars, now, cookieFile, files, start, stop, date, job_url,
                   total_logs, page, body, loop, svcAccepted, svcCount,
                   winGhost, windows, outcomes, called>>

(* ----------------------- Exporter.init_dates -------------------------- *)
\* the start branch: <<ok, self.start>> with the clock reading t
InitStart(arg, t) ==
    IF arg # Omitted
    THEN IF arg = MalformedDate THEN <<FALSE, None>>
         ELSE IF Midnight(strptime(arg)) > t THEN <<FALSE, Midnight(strptime(arg))>>
         ELSE <<TRUE, Midnight(strptime(arg))>>
    ELSE <<TRUE, Midnight(t - DEFAULT_TIMERANGE)>>

\* the stop branch with the default stop left at the time of day
InitStop_NoTruncate(arg, t) ==
    IF arg # Omitted
    THEN IF arg = MalformedDate THEN <<FALSE, None>>
         ELSE IF Midnight(strptime(arg)) > t THEN <<FALSE, Midnight(strptime(arg))>>
         ELSE <<TRUE, Midnight(strptime(arg))>>
    ELSE <<TRUE, t>>

\* the stop branch without the check against the clock
InitStop_NoFutureCheck(arg, t) ==
    IF arg # Omitted
    THEN IF arg = MalformedDate THEN <<FALSE, None>>
         ELSE <<TRUE, Midnight(strptime(arg))>>
    ELSE <<TRUE, Midnight(t)>>

\* the stop branch: <<ok, self.stop>> with the clock reading t
InitStop(arg, t) ==
    IF arg # Omitted
    THEN IF arg = MalformedDate THEN <<FALSE, None>>
         ELSE IF Midnight(strptime(arg)) > t THEN <<FALSE, Midnight(strptime(arg))>>
         ELSE <<TRUE, Midnight(strptime(arg))>>
    ELSE <<TRUE, Midnight(t)>>

\* export(): self.init_dates(start, stop), then date = self.start
InitDates ==
    /\ pc = "init_dates"
    /\ \E t1 \in Clock(now, now) : \E t2 \in Clock(t1, now) :
        LET s == InitStart(argStart, t1)
            e == InitStop(argStop, t2)
        IN  IF ~s[1]
            THEN /\ Stop("exit", "InvalidInput")
                 /\ now' = t1
                 /\ start' = s[2]
                 /\ UNCHANGED <<stop, date>>
            ELSE IF ~e[1]
            THEN /\ Stop("exit", "InvalidInput")
                 /\ now' = t2
                 /\ start' = s[2]
                 /\ stop' = e[2]
                 /\ UNCHANGED date
            ELSE /\ Stop("loop", "none")
                 /\ now' = t2
                 /\ start' = s[2]
                 /\ stop' = e[2]
                 /\ date' = s[2]
    /\ UNCHANGED <<envVars, cookieFile, exportsDir, files, job_url, total_logs,
                   page, body, loop, svcAccepted, svcCount, winGhost, windows,
                   outcomes, called>>

(* ------------------------- Exporter.export ---------------------------- *)
\* the loop test with <= for <
Continue_LessEqual(d, s) == d <= s

\* while date < self.stop
Continue(d, s) == d < s

\* while date < self.stop: ... / print 'Finished downloading logs!'
LoopTest ==
    /\ pc = "loop"
    /\ IF Continue(date, stop)
       THEN /\ pc' = "create_job"
            /\ windows' = Append(windows, <<date, date + INCREMENT>>)
       ELSE /\ pc' = "done"
            /\ UNCHANGED windows
    /\ UNCHANGED <<envVars, now, cookieFile, exportsDir, files, exitReason,
                   start, stop, date, job_url, total_logs, page, body, loop,
                   svcAccepted, svcCount, winGhost, outcomes, called>>

(* ------------------- SumologicClient.post / get / _resp --------------- *)
\* what the transport can deliver for the job-submission POST
PostResponses ==
    {[NoResp EXCEPT !.net = "fault", !.accepted = a] : a \in BOOLEAN}
    \cup {[NoResp EXCEPT !.net = "ok", !.status = 500],
          [NoResp EXCEPT !.net = "ok", !.status = 200],
          [NoResp EXCEPT !.net = "ok", !.status = 202, !.accepted = TRUE],
          [NoResp EXCEPT !.net = "ok", !.status = 202, !.accepted = TRUE,
                         !.id = svcAccepted + 1]}

\* what the transport can deliver for GET <job_url>
PollResponses ==
    {[NoResp EXCEPT !.net = "fault"],
     [NoResp EXCEPT !.net = "ok", !.status = 500],
     [NoResp EXCEPT !.net = "ok", !.status = 204],
     [NoResp EXCEPT !.net = "ok", !.status = 200],
     [NoResp EXCEPT !.net = "ok", !.status = 200, !.state = "DONE GATHERING RESULTS"],
     [NoResp EXCEPT !.net = "ok", !.status = 200, !.state = "DONE GATHERING RESULTS",
                    !.count = svcCount]}
    \cup {[NoResp EXCEPT !.net = "ok", !.status = 200, !.state = "GATHERING RESULTS",
                         !.count = c] : c \in {0, svcCount}}

\* session.get / session.post raised (timeout, connection error)
Faulted(r) == r.net = "fault"

\* _resp: raise Exception("Got status ...") when resp.status_code >= 300
RespRaises(r) == r.status >= 300

\* _resp(..., save_cookie=True): self.session.cookies.save()
SavesCookie(r) == ~Faulted(r)

\* get() with a cookie save on every response
GetSavesCookie_Always(r) == ~Faulted(r)

\* get(): _resp(resp) with save_cookie left False
GetSavesCookie(r) == FALSE

\* except Exception as ex: print ex; sleep(1)
RetrySleep(l) == [l EXCEPT !.sleeps = Append(@, RETRY_SECONDS)]

(* -------------------- SumologicClient.create_job ---------------------- *)
\* the attempt returns on any status _resp lets through
CreateJobReturns_AnySuccess(r) == ~Faulted(r) /\ ~RespRaises(r)

\* the attempt returns: status 202 and resp.json()['id'] is there
CreateJobReturns(r) ==
    /\ ~Faulted(r)
    /\ ~RespRaises(r)
    /\ r.status = 202
    /\ r.id # NoId

\* one pass of the while True loop: self.post(...), then return or raise
CreateJobAttempt ==
    /\ pc = "create_job"
    /\ \E r \in PostResponses :
        /\ CreateJobReturns(r) \/ Attempts(loop, "create_job", 0) < MaxFail
        /\ loop' = Attempt(loop, "create_job", 0)
        /\ lastPost' = r
        /\ lastSaved' = SavesCookie(r)
        /\ called' = TRUE
        /\ cookieFile' = (cookieFile \/ SavesCookie(r))
        /\ svcAccepted' = svcAccepted + (IF r.accepted THEN 1 ELSE 0)
        /\ IF CreateJobReturns(r)
           THEN /\ job_url' = JobUrl(r.id)
                /\ pc' = "pause"
                /\ phases' = Append(phases, Ph("SUBMITTED", 0))
                /\ \E c \in Counts(prettify(date)) : svcCount' = c
           ELSE /\ pc' = "create_sleep"
                /\ UNCHANGED <<job_url, svcCount, phases>>
    /\ UNCHANGED <<fixed, files, date, total_logs, page, body, pageReqs,
                   pageFailed, cutShort, yielded, lastPoll, windows, outcomes>>

\* the except branch of create_job
CreateJobSleep ==
    /\ pc = "create_sleep"
    /\ loop' = RetrySleep(loop)
    /\ pc' = "create_job"
    /\ UNCHANGED <<fixed, cookieFile, files, date, job_url, total_logs, page,
                   body, svcAccepted, svcCount, winGhost, windows, outcomes,
                   called>>

\* export() without the sleep
Pause_NoSleep ==
    /\ pc = "pause"
    /\ pc' = "get_count"
    /\ UNCHANGED <<fixed, cookieFile, files, date, job_url, total_logs, page,
                   body, loop, svcAccepted, svcCount, winGhost, windows,
                   outcomes, called>>

\* export(): sleep(self.SLEEP_SECONDS)
Pause ==
    /\ pc = "pause"
    /\ phases' = Append(phases, Ph("THROTTLED", SLEEP_SECONDS))
    /\ pc' = "get_count"
    /\ UNCHANGED <<fixed, cookieFile, files, date, job_url, total_logs, page,
                   body, loop, svcAccepted, svcCount, pageReqs, pageFailed, cutShort,
                   yielded, lastPost, lastPoll, lastSaved, windows, outcomes,
                   called>>

(* --------------------- SumologicClient.get_count ---------------------- *)
\* the attempt returns on any 200 response that carries a count
GetCountReturns_AnyState(r) ==
    /\ ~Faulted(r)
    /\ ~RespRaises(r)
    /\ r.status = 200
    /\ r.count # None

\* the attempt compares the state with another string
GetCountReturns_WrongState(r) ==
    /\ ~Faulted(r)
    /\ ~RespRaises(r)
    /\ r.status = 200
    /\ r.state = "DONE"
    /\ r.count # None

\* the attempt returns json['messageCount']
GetCountReturns(r) ==
    /\ ~Faulted(r)
    /\ ~RespRaises(r)
    /\ r.status = 200
    /\ r.state = "DONE GATHERING RESULTS"
    /\ r.count # None

\* one pass of the while True loop: self.get(job_url), then return or raise
GetCountAttempt ==
    /\ pc = "get_count"
    /\ \E r \in PollResponses :
        /\ GetCountReturns(r) \/ Attempts(loop, "get_count", 0) < MaxFail
        /\ loop' = Attempt(loop, "get_count", 0)
        /\ lastPoll' = r
        /\ lastSaved' = GetSavesCookie(r)
        /\ cookieFile' = (cookieFile \/ GetSavesCookie(r))
        /\ called' = TRUE
        /\ IF GetCountReturns(r)
           THEN /\ total_logs' = r.count
                /\ pc' = "branch"
                /\ phases' = Append(phases, Ph("COUNTED", 0))
           ELSE /\ pc' = "count_sleep"
                /\ UNCHANGED <<total_logs, phases>>
    /\ UNCHANGED <<fixed, files, date, job_url, page, body, svcAccepted,
                   svcCount, pageReqs, pageFailed, cutShort, yielded, lastPost,
                   windows, outcomes>>

\* the except branch of get_count
GetCountSleep ==
    /\ pc = "count_sleep"
    /\ loop' = RetrySleep(loop)
    /\ pc' = "get_count"
    /\ UNCHANGED <<fixed, cookieFile, files, date, job_url, total_logs, page,
                   body, svcAccepted, svcCount, winGhost, windows, outcomes,
                   called>>

(* ---------------------- export(): the branch -------------------------- *)
\* if total_logs is not None:
HasLogs_NotNone(n) == n # None

\* if total_logs:
HasLogs(n) == n # 0

\* if total_logs: ... else: print ' - No logs found.'
Branch ==
    /\ pc = "branch"
    /\ IF HasLogs(total_logs)
       THEN /\ pc' = "open_file"
            /\ UNCHANGED <<phases, outcomes>>
       ELSE /\ pc' = "advance"
            /\ phases' = Append(phases, Ph("EMPTY", 0))
            /\ outcomes' = Put(outcomes, date, "EMPTY")
    /\ UNCHANGED <<fixed, cookieFile, files, date, job_url, total_logs, page,
                   body, loop, svcAccepted, svcCount, pageReqs, pageFailed, cutShort,
                   yielded, lastPost, lastPoll, lastSaved, windows, called>>

(* --------------------------- write_to_file ---------------------------- *)
\* the file named by the day before the label
SinkPath_DayBefore(file_name) == <<CWD, file_name - 1>>

\* the path gzip.open(file_name, mode='wb') opens
SinkPath(file_name) == <<CWD, file_name>>

\* write_to_file that opens the file and never iterates the generator
OpenFile_NotConsumed ==
    /\ pc = "open_file"
    /\ files' = Put(files, <<CWD, prettify(date)>>, <<>>)
    /\ phases' = Append(phases, Ph("OPENED", 0))
    /\ pc' = "advance"
    /\ UNCHANGED <<fixed, cookieFile, date, job_url, total_logs, page, body,
                   loop, svcAccepted, svcCount, pageReqs, pageFailed, cutShort, yielded,
                   lastPost, lastPoll, lastSaved, windows, outcomes, called>>

\* write_to_file(prettify(date), self.client.get_logs(job_url, total_logs)):
\* the generator object is made (nothing of it runs), the file is opened
OpenFile ==
    /\ pc = "open_file"
    /\ files' = Put(files, SinkPath(prettify(date)), <<>>)
    /\ phases' = Append(phases, Ph("OPENED", 0))
    /\ page' = 0
    /\ pc' = "page_loop"
    /\ UNCHANGED <<fixed, cookieFile, date, job_url, total_logs, body, loop,
                   svcAccepted, svcCount, pageReqs, pageFailed, cutShort, yielded,
                   lastPost, lastPoll, lastSaved, windows, outcomes, called>>

(* ---------------------- SumologicClient.get_logs ---------------------- *)
\* xrange(0, count / self.MESSAGES_PER_PAGE)
NumPages_NoRemainder(count) == count \div MESSAGES_PER_PAGE

\* the pages that hold a record: xrange(0, ceil(count / MESSAGES_PER_PAGE))
NumPages_Ceil(count) == (count + MESSAGES_PER_PAGE - 1) \div MESSAGES_PER_PAGE

\* xrange(0, (count / self.MESSAGES_PER_PAGE) + 1)
NumPages(count) == (count \div MESSAGES_PER_PAGE) + 1

\* pages one record short of the limit apart
PageParams_Overlap(p) == <<MESSAGES_PER_PAGE, (MESSAGES_PER_PAGE - 1) * p>>

\* params of the page request
PageParams(p) == <<MESSAGES_PER_PAGE, MESSAGES_PER_PAGE * p>>

\* what the transport can deliver for GET <job_url>/messages?limit&offset:
\* the slice [lo, hi) of the result set, entry `bad' of it without 'map'
PageResponses(limit, offset) ==
    LET lo == Min(offset, svcCount)
        hi == Min(offset + limit, svcCount)
    IN  {[net |-> "fault", status |-> 0, json |-> FALSE, lo |-> 0, hi |-> 0, bad |-> None],
         [net |-> "ok", status |-> 500, json |-> FALSE, lo |-> 0, hi |-> 0, bad |-> None],
         [net |-> "ok", status |-> 204, json |-> FALSE, lo |-> 0, hi |-> 0, bad |-> None],
         [net |-> "ok", status |-> 200, json |-> FALSE, lo |-> 0, hi |-> 0, bad |-> None],
         [net |-> "ok", status |-> 200, json |-> TRUE, lo |-> lo, hi |-> hi, bad |-> None]}
        \cup {[net |-> "ok", status |-> 200, json |-> TRUE, lo |-> lo, hi |-> hi, bad |-> b]
              : b \in {x \in {lo, hi - 1} : lo <= x /\ x < hi}}

\* resp.status_code == 200 and json['messages'] is there
PageDecodes(r) ==
    /\ ~Faulted(r)
    /\ ~RespRaises(r)
    /\ r.status = 200
    /\ r.json

\* a request is listed when it is not the retry of the one before it
ListRequest(reqs, req) ==
    IF Len(reqs) > 0 /\ reqs[Len(reqs)] = req THEN reqs ELSE Append(reqs, req)

\* for page in xrange(...): the next page, or the generator is exhausted and
\* write_to_file closes the file; export() has reached the window's end
PageLoop ==
    /\ pc = "page_loop"
    /\ IF page < NumPages(total_logs)
       THEN /\ pc' = "page_get"
            /\ UNCHANGED <<phases, outcomes>>
       ELSE /\ pc' = "advance"
            /\ phases' = Append(phases, Ph("WRITTEN", 0))
            /\ outcomes' = Put(outcomes, date, "WRITTEN")
    /\ UNCHANGED <<fixed, cookieFile, files, date, job_url, total_logs, page,
                   body, loop, svcAccepted, svcCount, pageReqs, pageFailed, cutShort,
                   yielded, lastPost, lastPoll, lastSaved, windows, called>>

\* one pass of the while True loop up to the response: self.get(.../messages)
PageGet ==
    /\ pc = "page_get"
    /\ \E r \in PageResponses(PageParams(page)[1], PageParams(page)[2]) :
        /\ (PageDecodes(r) /\ r.bad = None) \/ Attempts(loop, "get_logs", page) < MaxFail
        /\ loop' = Attempt(loop, "get_logs", page)
        /\ pageReqs' = ListRequest(pageReqs, PageParams(page))
        /\ lastSaved' = GetSavesCookie(r)
        /\ cookieFile' = (cookieFile \/ GetSavesCookie(r))
        /\ called' = TRUE
        /\ IF PageDecodes(r)
           THEN /\ body' = [lo |-> r.lo, hi |-> r.hi, bad |-> r.bad]
                /\ pc' = "page_yield"
                /\ UNCHANGED pageFailed
           ELSE /\ pc' = "page_sleep"
                /\ pageFailed' = TRUE
                /\ UNCHANGED body
    /\ UNCHANGED <<fixed, files, date, job_url, total_logs, page, svcAccepted,
                   svcCount, phases, yielded, lastPost, lastPoll, cutShort,
                   windows, outcomes>>

\* the entries the for loop yields before it ends or log['map'] raises
YieldEnd(b) == IF b.bad = None THEN b.hi ELSE b.bad

\* a page that is left as soon as its for loop stops, bad entry or not
PageDone_Always(b) == TRUE

\* the for loop ran over every entry, so break leaves the retry loop
PageDone(b) == b.bad = None

\* for log in json['messages']: yield log['map'], each record written by
\* write_to_file as it arrives; then break, or the KeyError of a bad entry
YieldRecords ==
    /\ pc = "page_yield"
    /\ yielded' = AppendRun(yielded, body.lo, YieldEnd(body))
    /\ files' = [files EXCEPT ![SinkPath(prettify(date))] =
                    AppendRun(@, body.lo, YieldEnd(body))]
    /\ body' = IdleBody
    /\ cutShort' = (cutShort \/ (body.bad # None /\ body.lo < body.bad))
    /\ IF PageDone(body)
       THEN /\ page' = page + 1
            /\ pc' = "page_loop"
            /\ UNCHANGED pageFailed
       ELSE /\ pc' = "page_sleep"
            /\ pageFailed' = TRUE
            /\ UNCHANGED page
    /\ UNCHANGED <<fixed, cookieFile, date, job_url, total_logs, loop,
                   svcAccepted, svcCount, phases, pageReqs, lastPost, lastPoll,
                   lastSaved, windows, outcomes, called>>

\* the except branch of get_logs
GetLogsSleep ==
    /\ pc = "page_sleep"
    /\ loop' = RetrySleep(loop)
    /\ pc' = "page_get"
    /\ UNCHANGED <<fixed, cookieFile, files, date, job_url, total_logs, page,
                   body, svcAccepted, svcCount, winGhost, windows, outcomes,
                   called>>

(* ----------------------- export(): move forward ----------------------- *)
\* date += self.INCREMENT; the next window starts with a clean slate
Advance ==
    /\ pc = "advance"
    /\ date' = date + INCREMENT
    /\ pc' = "loop"
    /\ job_url' = JobUrl(NoId) /\ total_logs' = None
    /\ page' = 0 /\ body' = IdleBody
    /\ loop' = NoLoop /\ svcAccepted' = 0 /\ svcCount' = 0
    /\ phases' = <<>> /\ pageReqs' = <<>> /\ pageFailed' = FALSE /\ yielded' = <<>>
    /\ lastPost' = NoResp /\ lastPoll' = NoResp /\ lastSaved' = FALSE
    /\ cutShort' = FALSE
    /\ UNCHANGED <<fixed, cookieFile, files, windows, outcomes, called>>

Next ==
    \/ ExporterInit
    \/ InitDates
    \/ LoopTest
    \/ CreateJobAttempt
    \/ CreateJobSleep
    \/ Pause
    \/ GetCountAttempt
    \/ GetCountSleep
    \/ Branch
    \/ OpenFile
    \/ PageLoop
    \/ PageGet
    \/ YieldRecords
    \/ GetLogsSleep
    \/ Advance

Spec == Init /\ [][Next]_vars

\* the program always takes its next step, and the environment lets a retry
\* loop fail at most MaxFail times: every retried call succeeds in the end
FairSpec == Spec /\ WF_vars(Next)

(* ------------------- get_logs called on its own ----------------------- *)
\* get_logs(job_url, count) for any count >= 0, consumed by write_to_file:
\* the job of yesterday's window is accepted, its file is open
GetLogsInit ==
    /\ argStart = DataDay /\ argStop = Today
    /\ now = Today * HoursPerDay + HoursPerDay - 1
    /\ configFile = "ok" /\ cookieFile = TRUE /\ exportsDir = TRUE
    /\ files = Put(<<>>, SinkPath(DataDay), <<>>)
    /\ files0 = <<>>
    /\ pc = "page_loop"
    /\ exitReason = "none"
    /\ start = strptime(DataDay) /\ stop = strptime(Today) /\ date = strptime(DataDay)
    /\ job_url = JobUrl(1)
    /\ total_logs \in Counts(DataDay)
    /\ svcCount = total_logs
    /\ page = 0 /\ body = IdleBody
    /\ loop = Attempt(NoLoop, "get_count", 0) /\ svcAccepted = 1
    /\ phases = <<Ph("SUBMITTED", 0), Ph("THROTTLED", SLEEP_SECONDS),
                  Ph("COUNTED", 0), Ph("OPENED", 0)>>
    /\ pageReqs = <<>> /\ pageFailed = FALSE /\ yielded = <<>>
    /\ lastPost = NoResp /\ lastPoll = NoResp /\ lastSaved = FALSE
    /\ cutShort = FALSE
    /\ windows = <<<<strptime(DataDay), strptime(DataDay) + INCREMENT>>>>
    /\ outcomes = <<>>
    /\ called = TRUE
    /\ SinkIdle

GetLogsNext ==
    \/ PageLoop
    \/ PageGet
    \/ YieldRecords
    \/ GetLogsSleep

GetLogsSpec == GetLogsInit /\ [][GetLogsNext]_vars

(* ----------------- write_to_file called on its own -------------------- *)
\* the characters that matter to a line-per-record file: a plain one, the
\* newline, the backslash and the double quote
Chars == {"n", "LF", "BS", "QT"}

\* a record is stood for by the one string it holds, of up to two characters
Records == UNION {[1 .. n -> Chars] : n \in 0 .. 2}
LogSeqs == UNION {[1 .. n -> Records] : n \in 0 .. MaxLogs}

\* json.dumps without the escape of the newline
Escape_RawNewline(c) ==
    CASE c = "BS" -> <<"BS", "BS">>
      [] c = "QT" -> <<"BS", "QT">>
      [] OTHER -> <<c>>

\* json.dumps of one character of a string
Escape(c) ==
    CASE c = "LF" -> <<"BS", "n">>
      [] c = "BS" -> <<"BS", "BS">>
      [] c = "QT" -> <<"BS", "QT">>
      [] OTHER -> <<c>>

RECURSIVE EscapeAll(_)
EscapeAll(str) ==
    IF str = <<>> THEN <<>> ELSE Escape(Head(str)) \o EscapeAll(Tail(str))

\* dumps(log)
dumps(log) == <<"QT">> \o EscapeAll(log) \o <<"QT">>

\* a file_name that export() can pass, and the text of a file found there
SinkNames == {DataDay - 1, DataDay}
OldText == dumps(<<"n">>) \o <<"LF">>

\* write_to_file(file_name, logs) for any label and any finite sequence of
\* records, on a file system with or without a file of that name; the texts
\* are what a gzip reader gets back, the compression itself is left out
SinkInit ==
    /\ argStart = Omitted /\ argStop = Omitted
    /\ now = Today * HoursPerDay + HoursPerDay - 1
    /\ configFile = "ok" /\ cookieFile = TRUE /\ exportsDir = TRUE
    /\ files = <<>> /\ files0 = <<>>
    /\ pc = "main"
    /\ exitReason = "none"
    /\ start = None /\ stop = None /\ date = None
    /\ job_url = JobUrl(NoId) /\ total_logs = None
    /\ page = 0 /\ body = IdleBody
    /\ loop = NoLoop /\ svcAccepted = 0 /\ svcCount = 0
    /\ phases = <<>> /\ pageReqs = <<>> /\ pageFailed = FALSE /\ yielded = <<>>
    /\ lastPost = NoResp /\ lastPoll = NoResp /\ lastSaved = FALSE
    /\ cutShort = FALSE
    /\ windows = <<>>
    /\ outcomes = <<>>
    /\ called = FALSE
    /\ sinkName \in SinkNames
    /\ sinkLogs \in LogSeqs
    /\ sinkLeft = sinkLogs
    /\ sinkPc = "open"
    /\ sinkFiles \in {<<>>,
                      [q \in {<<CWD, DataDay>>} |-> OldText],
                      [q \in {<<CWD, DataDay - 1>>, <<CWD, DataDay>>} |-> OldText]}

\* with gzip.open(file_name, mode='wb') as f:
SinkOpen ==
    /\ sinkPc = "open"
    /\ sinkFiles' = Put(sinkFiles, SinkPath(sinkName), <<>>)
    /\ sinkPc' = "write"
    /\ UNCHANGED <<exportVars, sinkName, sinkLogs, sinkLeft>>

\* for log in logs: f.write(dumps(log) + '\n')
SinkWrite ==
    /\ sinkPc = "write"
    /\ sinkLeft # <<>>
    /\ sinkFiles' = [sinkFiles EXCEPT ![SinkPath(sinkName)] =
                        @ \o dumps(Head(sinkLeft)) \o <<"LF">>]
    /\ sinkLeft' = Tail(sinkLeft)
    /\ UNCHANGED <<exportVars, sinkName, sinkLogs, sinkPc>>

\* logs is exhausted: the with block closes the file
SinkClose ==
    /\ sinkPc = "write"
    /\ sinkLeft = <<>>
    /\ sinkPc' = "closed"
    /\ UNCHANGED <<exportVars, sinkName, sinkLogs, sinkLeft, sinkFiles>>

SinkNext ==
    \/ SinkOpen
    \/ SinkWrite
    \/ SinkClose

SinkSpec == SinkInit /\ [][SinkNext]_vars

(* ============================ claims ================================== *)
Running == pc \notin {"main", "init_dates", "exit", "crashed"}
InWindow == pc \notin {"main", "init_dates", "exit", "crashed", "loop", "done"}
Steps == [i \in 1 .. Len(phases) |-> phases[i].step]
IsPrefix(a, b) == Len(a) <= Len(b) /\ \A i \in 1 .. Len(a) : a[i] = b[i]

\* C1: for a valid range with start < stop the windows export submits jobs
\* for are ascending and contiguous (each starts where the one before ends,
\* so there is no gap and no overlap), the first starts at start and, once
\* the run is done, the last ends at stop.
C1_WindowsCoverRange ==
    (Running /\ start < stop) =>
        /\ \A i \in 1 .. Len(windows) :
            /\ windows[i][1] < windows[i][2]
            /\ windows[i][1] = IF i = 1 THEN start ELSE windows[i - 1][2]
        /\ pc = "done" => (Len(windows) >= 1 /\ windows[Len(windows)][2] = stop)

C1_Witness ==
    /\ pc = "done"
    /\ start < stop
    /\ Len(windows) >= 2
    /\ argStop = Omitted

\* C2: within a window the steps come in the order submit, pause, count,
\* then write or empty: a count query is issued only after the one pause of
\* SLEEP_SECONDS that follows the successful submission, and at the end of
\* the window that pause has happened exactly once, whatever was retried.
C2_StepOrder ==
    InWindow =>
        /\ \/ IsPrefix(Steps, <<"SUBMITTED", "THROTTLED", "COUNTED", "EMPTY">>)
           \/ IsPrefix(Steps, <<"SUBMITTED", "THROTTLED", "COUNTED", "OPENED", "WRITTEN">>)
        /\ \A i \in 1 .. Len(phases) :
            phases[i].step = "THROTTLED" => phases[i].secs = SLEEP_SECONDS
        /\ (lastPoll # NoResp \/ pc \in {"get_count", "count_sleep"}) =>
            (Len(phases) >= 2 /\ phases[2] = Ph("THROTTLED", SLEEP_SECONDS))
        /\ pc = "advance" =>
            Cardinality({i \in 1 .. Len(phases) : phases[i].step = "THROTTLED"}) = 1

C2_Witness ==
    /\ pc = "advance"
    /\ svcAccepted >= 2
    /\ pageFailed
    /\ Steps = <<"SUBMITTED", "THROTTLED", "COUNTED", "OPENED", "WRITTEN">>

\* C3: windows are processed one after the other: whenever the program is
\* about to issue, or has issued, a remote call for a window, every earlier
\* window has reached its outcome (WRITTEN or EMPTY), and the call is for the
\* last window submitted.
C3_Sequential ==
    /\ \A i \in 1 .. Len(windows) - 1 :
        /\ windows[i][1] \in DOMAIN outcomes
        /\ outcomes[windows[i][1]] \in {"WRITTEN", "EMPTY"}
    /\ InWindow => (Len(windows) >= 1 /\ windows[Len(windows)][1] = date)
    /\ (InWindow /\ pc # "advance") => date \notin DOMAIN outcomes

C3_Witness ==
    /\ pc = "page_get"
    /\ Len(windows) >= 2
    /\ outcomes[windows[Len(windows) - 1][1]] = "EMPTY"

\* C4: when every retried call succeeds in the end (a 202 with an id, a 200
\* in the done state with its count, a 200 page whose entries all decode), a
\* submitted window reaches its outcome and the run reaches done.
C4_Terminates ==
    /\ (pc = "pause") ~> (pc = "advance" /\ date \in DOMAIN outcomes)
    /\ (pc = "loop") ~> (pc = "done")

C4_Witness ==
    /\ pc = "done"
    /\ Len(windows) >= 2
    /\ \E d \in DOMAIN outcomes : outcomes[d] = "WRITTEN"

PostSucceeded(r) == r.net = "ok" /\ r.status = 202 /\ r.id # NoId

\* C5: create_job returns on the first response with status 202 and an id,
\* with the handle made of that id; every other outcome of an attempt is
\* followed by a sleep of RETRY_SECONDS and another attempt, so after n
\* failures it has made n + 1 attempts and slept n times, and nothing is
\* propagated.
C5_CreateJobRetries ==
    /\ pc = "pause" =>
        /\ PostSucceeded(lastPost)
        /\ job_url = JobUrl(lastPost.id)
        /\ loop.call = "create_job"
        /\ Len(loop.sleeps) = loop.attempts - 1
    /\ pc = "create_sleep" =>
        /\ ~PostSucceeded(lastPost)
        /\ loop.call = "create_job"
        /\ Len(loop.sleeps) = loop.attempts - 1
    /\ pc = "create_job" => Len(loop.sleeps) = loop.attempts
    /\ loop.call = "create_job" =>
        /\ \A i \in 1 .. Len(loop.sleeps) : loop.sleeps[i] = RETRY_SECONDS
        /\ exitReason = "none"

C5_Witness ==
    /\ pc = "pause"
    /\ loop.call = "create_job"
    /\ loop.attempts = 3
    /\ loop.sleeps = <<RETRY_SECONDS, RETRY_SECONDS>>

ExpectedPages(k) == [i \in 1 .. k + 1 |-> <<MESSAGES_PER_PAGE, MESSAGES_PER_PAGE * (i - 1)>>]

\* C6: for count = MESSAGES_PER_PAGE * k + r with r > 0 and no failed page
\* attempt, get_logs asks for the pages 0 .. k in order, each once, with
\* limit MESSAGES_PER_PAGE and offset MESSAGES_PER_PAGE * page, and yields
\* the records 0 .. count-1 in order.
C6_PagesOfCount ==
    (InWindow /\ total_logs > 0 /\ total_logs % MESSAGES_PER_PAGE # 0 /\ ~pageFailed) =>
        /\ IsPrefix(pageReqs, ExpectedPages(total_logs \div MESSAGES_PER_PAGE))
        /\ loop.call = "get_logs" => loop.attempts = 1
        /\ pc = "advance" =>
            /\ pageReqs = ExpectedPages(total_logs \div MESSAGES_PER_PAGE)
            /\ yielded = <<<<0, total_logs>>>>

C6_Witness ==
    /\ pc = "advance"
    /\ ~pageFailed
    /\ total_logs = MESSAGES_PER_PAGE + 1
    /\ Len(pageReqs) = 2

\* C7: when the service reports a count of 0 the file is not opened, no page
\* is requested and nothing is yielded for the window, and the window ends
\* EMPTY with the program at the step that moves to the next window.
C7_EmptyWindow ==
    (InWindow /\ total_logs = 0) =>
        /\ pc \in {"branch", "advance"}
        /\ pageReqs = <<>>
        /\ yielded = <<>>
        /\ \A i \in 1 .. Len(phases) : phases[i].step # "OPENED"
        /\ pc = "advance" => (date \in DOMAIN outcomes /\ outcomes[date] = "EMPTY")

C7_Witness ==
    /\ pc = "advance"
    /\ total_logs = 0
    /\ prettify(date) = DataDay
    /\ lastPoll.count = 0

BadDate(a, t) == a = MalformedDate \/ (a # Omitted /\ strptime(a) > t)

\* C8: with a malformed date, or a date later than the clock, the run stops
\* in init_dates with the invalid-input exit (unless Exporter() has stopped
\* it before): it never reaches the loop and issues no remote call.
C8_InvalidDatesStop ==
    (BadDate(argStart, now) \/ BadDate(argStop, now)) =>
        /\ ~called
        /\ windows = <<>>
        /\ ~Running
        /\ pc = "exit" => exitReason \in {"InvalidInput", "NoCredentials"}
        /\ exitReason = "InvalidInput" => pc = "exit"

C8_Witness ==
    /\ pc = "exit"
    /\ exitReason = "InvalidInput"
    /\ argStart \notin {Omitted, MalformedDate}
    /\ argStop \notin {Omitted, MalformedDate}
    /\ strptime(argStart) <= now
    /\ strptime(argStop) > now

\* C9: the sequence of windows is empty iff start >= stop; then no remote
\* call is issued, no file is written, and the run goes from the loop test
\* to its normal end.
C9_EmptyRange ==
    Running =>
        /\ start >= stop =>
            /\ windows = <<>>
            /\ ~called
            /\ files = files0
            /\ pc \in {"loop", "done"}
        /\ pc = "done" => ((windows = <<>>) <=> (start >= stop))

C9_Witness ==
    /\ pc = "done"
    /\ start > stop
    /\ windows = <<>>

PollDone(r) ==
    r.net = "ok" /\ r.status = 200 /\ r.state = "DONE GATHERING RESULTS"

\* C10: get_count returns only on a 200 response in the done state, and
\* returns the count of that response; after any other response or failure
\* it sleeps RETRY_SECONDS and polls again, and nothing is propagated.
C10_GetCountReturnsOnDone ==
    /\ (InWindow /\ total_logs # None) =>
        /\ PollDone(lastPoll)
        /\ total_logs = lastPoll.count
    /\ pc = "branch" => total_logs # None
    /\ pc = "count_sleep" =>
        /\ ~(PollDone(lastPoll) /\ lastPoll.count # None)
        /\ total_logs = None
    /\ loop.call = "get_count" =>
        /\ Len(loop.sleeps) = loop.attempts - (IF pc = "get_count" THEN 0 ELSE 1)
        /\ \A i \in 1 .. Len(loop.sleeps) : loop.sleeps[i] = RETRY_SECONDS
        /\ exitReason = "none"

C10_Witness ==
    /\ pc = "branch"
    /\ loop.call = "get_count"
    /\ loop.attempts = 3
    /\ total_logs > 0

Terminated == pc \in {"exit", "crashed"}

\* C11: the process is terminated only by an invalid-input error or by a
\* configuration error (credential file missing or unreadable); a failure of
\* a remote call never terminates it, and nothing else does.
C11_OnlyInputAndConfigTerminate ==
    Terminated => exitReason \in {"InvalidInput", "NoCredentials", "CredentialsError"}

Changed(p) == p \notin DOMAIN files0 \/ files[p] # files0[p]

\* C12: every export file the run writes is in the directory exports and is
\* named by its window's start date, one per window with a nonzero count.
C12_FilesInExports ==
    /\ \A p \in DOMAIN files : Changed(p) => p[1] = EXPORTS
    /\ \A d \in DOMAIN outcomes :
        outcomes[d] = "WRITTEN" => <<EXPORTS, prettify(d)>> \in DOMAIN files

InitFailures == {"NoCredentials", "CredentialsError", "OSError", "CookieLoadError"}

\* C14: a failure of Exporter() (credentials missing or not loadable, the
\* directory exports not made, the cookie jar not loaded) ends the run there:
\* no window is started and no remote call is issued, and a run that issues a
\* remote call has its credentials and its directory.
C14_InitFailureAborts ==
    /\ exitReason \in InitFailures =>
        (Terminated /\ ~called /\ windows = <<>> /\ start = None)
    /\ (called \/ Running) => (configFile = "ok" /\ exportsDir /\ cookieFile)

C14_Witness ==
    /\ pc = "crashed"
    /\ exitReason = "OSError"
    /\ ~exportsDir
    /\ configFile = "ok"

AfterPost == pc \in {"create_sleep", "pause"}

\* C15 (as first stated): the cookie jar is written after every submission
\* POST, whatever the outcome of the POST.
C15_SavedAfterEveryPost ==
    AfterPost => lastSaved

\* C15: the cookie jar is loaded at construction, so a run that got past
\* Exporter() has it; it is written after a submission POST exactly when the
\* POST got a response, of whatever status, and not when the POST failed
\* without one; no status poll and no page fetch writes it.
C15_CookieStore ==
    /\ Running => cookieFile
    /\ AfterPost => (lastSaved <=> ~Faulted(lastPost))
    /\ loop.call \in {"get_count", "get_logs"} => ~lastSaved

C15_Witness ==
    /\ pc = "create_sleep"
    /\ Faulted(lastPost)
    /\ ~lastSaved

\* the records lo .. hi-1 are all in the runs
RECURSIVE Covered(_, _, _)
Covered(runs, lo, hi) ==
    \/ lo >= hi
    \/ \E i \in 1 .. Len(runs) :
        /\ runs[i][1] <= lo
        /\ lo < runs[i][2]
        /\ Covered(runs, runs[i][2], hi)

PageSlice(q) ==
    <<Min(MESSAGES_PER_PAGE * q, svcCount), Min(MESSAGES_PER_PAGE * (q + 1), svcCount)>>

Handed(q) == Covered(yielded, PageSlice(q)[1], PageSlice(q)[2])

\* C16: get_logs is lazy and page-ordered: no page is requested before
\* write_to_file has opened the file and asks for the first record, the pages
\* are requested in ascending order, and a page is requested only when every
\* record of every page before it has been handed over.
C16_LazyPageOrder ==
    /\ pageReqs # <<>> => \E i \in 1 .. Len(Steps) : Steps[i] = "OPENED"
    /\ \A i \in 1 .. Len(pageReqs) : pageReqs[i][2] = MESSAGES_PER_PAGE * (i - 1)
    /\ \A i \in 1 .. Len(pageReqs) : \A q \in 0 .. (i - 2) : Handed(q)
    /\ pc \in {"page_get", "page_sleep", "page_yield"} => \A q \in 0 .. (page - 1) : Handed(q)

C16_Witness ==
    /\ pc = "page_get"
    /\ page = 1
    /\ Len(pageReqs) = 1
    /\ pageFailed
    /\ Handed(0)

\* C17: at most one job is live per window: when the service has accepted a
\* submission for the window, the client issues no other submission POST for
\* it.
C17_OneJobPerWindow ==
    /\ pc = "create_job" => svcAccepted = 0
    /\ svcAccepted <= 1

NoDup(runs) ==
    \A i, j \in 1 .. Len(runs) :
        i < j => (runs[i][2] <= runs[j][1] \/ runs[j][2] <= runs[i][1])

\* C18 (as first stated): whatever fails, a malformed entry in a 200 response
\* included, no record of a page is delivered twice.
C18_NoRecordTwice ==
    NoDup(yielded)

\* C18: a page is fetched again until a 200 response has been read to its
\* end; unless a malformed entry ended a response after some of its records,
\* no record is delivered twice, and the records delivered are those written
\* to the file; when the window is written every record was delivered.
C18_OnceUnlessCutShort ==
    /\ ~cutShort => (NoDup(yielded) /\ Len(yielded) <= 1)
    /\ (InWindow /\ \E i \in 1 .. Len(Steps) : Steps[i] = "OPENED") =>
        files[SinkPath(prettify(date))] = yielded
    /\ (pc = "advance" /\ date \in DOMAIN outcomes /\ outcomes[date] = "WRITTEN") =>
        Covered(yielded, 0, svcCount)

C18_Witness ==
    /\ cutShort
    /\ ~NoDup(yielded)
    /\ pc = "advance"

Named(p, t) == p[2] = prettify(t)

\* C20: a step of a window changes, creates or removes only a file named by
\* the window's date; until the file is opened, so for the whole of a window
\* with a zero count, the file of that date is as the run found it; the file
\* is opened empty after the count is known and before the window's first
\* page request.
C20_FileFrame ==
    /\ [][/\ \A p \in DOMAIN files : p \in DOMAIN files'
          /\ \A p \in DOMAIN files' :
                ~Named(p, date) => (p \in DOMAIN files /\ files'[p] = files[p])
          /\ pc = "open_file" =>
                /\ \E p \in DOMAIN files' : Named(p, date) /\ files'[p] = <<>>
                /\ total_logs > 0
                /\ pageReqs = <<>>]_vars
    /\ [](InWindow =>
            /\ (\A i \in 1 .. Len(Steps) : Steps[i] # "OPENED") =>
                /\ pageReqs = <<>>
                /\ \A d \in {CWD, EXPORTS} :
                    /\ <<d, prettify(date)>> \in DOMAIN files
                            <=> <<d, prettify(date)>> \in DOMAIN files0
                    /\ <<d, prettify(date)>> \in DOMAIN files =>
                            files[<<d, prettify(date)>>] = files0[<<d, prettify(date)>>]
            /\ \A i \in 1 .. Len(Steps) : Steps[i] = "OPENED" =>
                    \E j \in 1 .. (i - 1) : Steps[j] = "COUNTED")

C20_Witness ==
    /\ pc = "advance"
    /\ prettify(date) = DataDay
    /\ total_logs = 0
    /\ files = OldFiles

\* C19: for every count >= 0 get_logs requests floor(count / 10000) + 1
\* distinct pages, in order, page i with limit 10000 and offset 10000 * i,
\* whatever attempts fail; for a count that is a positive multiple of 10000
\* the last of them is the page at offset = count.
C19_PagesRequested ==
    /\ IsPrefix(pageReqs, ExpectedPages(total_logs \div MESSAGES_PER_PAGE))
    /\ pc = "advance" =>
        /\ Len(pageReqs) = (total_logs \div MESSAGES_PER_PAGE) + 1
        /\ \A i \in 1 .. Len(pageReqs) :
            pageReqs[i] = <<MESSAGES_PER_PAGE, MESSAGES_PER_PAGE * (i - 1)>>
        /\ (total_logs > 0 /\ total_logs % MESSAGES_PER_PAGE = 0) =>
            pageReqs[Len(pageReqs)] = <<MESSAGES_PER_PAGE, total_logs>>

C19_Witness ==
    /\ pc = "advance"
    /\ total_logs = MESSAGES_PER_PAGE
    /\ pageFailed
    /\ pageReqs = <<<<MESSAGES_PER_PAGE, 0>>, <<MESSAGES_PER_PAGE, MESSAGES_PER_PAGE>>>>

\* the reader's side: the text cut at each newline, each line JSON-decoded
RECURSIVE SplitLines(_, _)
SplitLines(text, cur) ==
    IF text = <<>> THEN (IF cur = <<>> THEN <<>> ELSE <<cur>>)
    ELSE IF Head(text) = "LF" THEN <<cur>> \o SplitLines(Tail(text), <<>>)
    ELSE SplitLines(Tail(text), Append(cur, Head(text)))

RECURSIVE Unescape(_)
Unescape(str) ==
    IF str = <<>> THEN <<>>
    ELSE IF str[1] # "BS" THEN <<str[1]>> \o Unescape(Tail(str))
    ELSE IF Len(str) < 2 THEN <<"ERR">>
    ELSE <<CASE str[2] = "n" -> "LF"
             [] str[2] = "BS" -> "BS"
             [] str[2] = "QT" -> "QT"
             [] OTHER -> "ERR">> \o Unescape(SubSeq(str, 3, Len(str)))

loads(line) ==
    IF Len(line) >= 2 /\ line[1] = "QT" /\ line[Len(line)] = "QT"
    THEN Unescape(SubSeq(line, 2, Len(line) - 1))
    ELSE <<"ERR">>

ReadBack(text) ==
    LET lines == SplitLines(text, <<>>)
    IN  [i \in 1 .. Len(lines) |-> loads(lines[i])]

\* C13: for every finite sequence of records given to write_to_file under a
\* label, the closed file is named by the label and its text, cut at the
\* newlines and JSON-decoded line by line, is the sequence given, in order; a
\* file of that name found there is replaced, not appended to, and while
\* writing the file holds the records written so far.
C13_SinkRoundTrip ==
    /\ sinkPc \in {"write", "closed"} =>
        /\ \E q \in DOMAIN sinkFiles : q[2] = sinkName
        /\ \A q \in DOMAIN sinkFiles : q[2] = sinkName =>
            ReadBack(sinkFiles[q]) \o sinkLeft = sinkLogs
    /\ sinkPc = "closed" =>
        \A q \in DOMAIN sinkFiles : q[2] = sinkName =>
            /\ ReadBack(sinkFiles[q]) = sinkLogs
            /\ Len(SplitLines(sinkFiles[q], <<>>)) = Len(sinkLogs)

C13_Witness ==
    /\ sinkPc = "closed"
    /\ sinkLogs = <<<<"BS", "n">>, <<"LF", "QT">>>>
    /\ sinkName = DataDay
    /\ <<CWD, DataDay - 1>> \in DOMAIN sinkFiles

====
